---- MODULE Spec2Model ----
(***************************************************************************)
(* Model of the /compact context-compaction filter (src/__init__.py).      *)
(*                                                                         *)
(* Python strings are sequences of one-character strings.  A message is a  *)
(* record [role, content]; a content value is a tagged record that is one  *)
(* of: plain text, a list of parts, None, or an absent 'content' key.  A   *)
(* part is a dict (with a 'type' key and an optional 'text' key) or a bare *)
(* string.                                                                 *)
(***************************************************************************)
EXTENDS Integers, Sequences, FiniteSets, Bags, TLC

(* ---------------------------------------------------------------------- *)
(* Bounds of the model                                                     *)
(* ---------------------------------------------------------------------- *)
\* longest history (messages before the last one) of an incoming conversation
MaxPrior == 2
\* most turns suspended in the summarization call at the same time
MaxInFlight == 2

(* ---------------------------------------------------------------------- *)
(* String literals of the source                                           *)
(* ---------------------------------------------------------------------- *)
CompactCommand == <<"/","c","o","m","p","a","c","t">>

NoHistoryText == <<"N","o"," ","c","o","n","v","e","r","s","a","t","i","o","n"," ","h","i","s","t","o","r","y"," ","t","o"," ","c","o","m","p","a","c","t",".">>

FailedText == <<"F","a","i","l","e","d"," ","t","o"," ","g","e","n","e","r","a","t","e"," ","s","u","m","m","a","r","y",".">>

ContinueText == <<"C","o","n","t","i","n","u","e"," ","o","u","r"," ","c","o","n","v","e","r","s","a","t","i","o","n","."," ","W","h","a","t"," ","w","o","u","l","d"," ","y","o","u"," ","l","i","k","e"," ","t","o"," ","d","i","s","c","u","s","s"," ","n","e","x","t","?">>

SummaryPrefix == <<"[","C","o","n","t","e","x","t",":"," ","P","r","e","v","i","o","u","s"," ","c","o","n","v","e","r","s","a","t","i","o","n"," ","s","u","m","m","a","r","y","]","\n","\n">>

DefaultThread == "default"

(* ---------------------------------------------------------------------- *)
(* Python values                                                           *)
(* ---------------------------------------------------------------------- *)
\* a str content
Text(s) == [tag |-> "text", text |-> s, parts |-> <<>>]
\* a list content
Parts(ps) == [tag |-> "list", text |-> <<>>, parts |-> ps]
\* content None
NoneContent == [tag |-> "none", text |-> <<>>, parts |-> <<>>]
\* the message has no 'content' key
AbsentContent == [tag |-> "absent", text |-> <<>>, parts |-> <<>>]

\* a dict part {'type': ty, 'text': s}
TextPart(ty, s) == [tag |-> "dict", type |-> ty, hasText |-> TRUE, text |-> s]
\* a dict part {'type': ty}
BarePart(ty) == [tag |-> "dict", type |-> ty, hasText |-> FALSE, text |-> <<>>]
\* a part that is a bare str
StrPart(s) == [tag |-> "str", type |-> <<>>, hasText |-> FALSE, text |-> s]

\* the value None of a 'text' key: a one-element sequence, which no str equals
PyNone == <<"None">>

Msg(r, c) == [role |-> r, content |-> c]

\* str.isspace for the characters of the model
IsSpace(c) == c \in {" ", "\n", "\t"}

RECURSIVE lstrip(_)
lstrip(s) == IF s # <<>> /\ IsSpace(Head(s)) THEN lstrip(Tail(s)) ELSE s

RECURSIVE rstrip(_)
rstrip(s) ==
  IF s # <<>> /\ IsSpace(s[Len(s)]) THEN rstrip(SubSeq(s, 1, Len(s) - 1)) ELSE s

\* str.strip()
strip(s) == rstrip(lstrip(s))

\* str.startswith(p)
startswith(s, p) == Len(s) >= Len(p) /\ SubSeq(s, 1, Len(p)) = p

RECURSIVE Join(_, _)
\* sep.join(ss)
Join(ss, sep) ==
  IF ss = <<>> THEN <<>>
  ELSE IF Len(ss) = 1 THEN ss[1]
  ELSE ss[1] \o sep \o Join(Tail(ss), sep)

\* repr of a str without quotes or escapes in it
ReprStr(s) == <<"'">> \o s \o <<"'">>

\* repr of a part
ReprPart(p) ==
  IF p.tag = "str" THEN ReprStr(p.text)
  ELSE <<"{">> \o ReprStr(<<"t","y","p","e">>) \o <<":"," ">> \o ReprStr(p.type)
       \o (IF p.hasText
           THEN <<","," ">> \o ReprStr(<<"t","e","x","t">>) \o <<":"," ">>
                \o (IF p.text = PyNone THEN <<"N","o","n","e">> ELSE ReprStr(p.text))
           ELSE <<>>)
       \o <<"}">>

\* str(content): the value of message.get('content', '') as a string
PyStr(c) ==
  CASE c.tag = "text" -> c.text
    [] c.tag = "absent" -> <<>>
    [] c.tag = "none" -> <<"N","o","n","e">>
    [] c.tag = "list" ->
         <<"[">> \o Join([i \in 1..Len(c.parts) |-> ReprPart(c.parts[i])], <<","," ">>) \o <<"]">>

RECURSIVE JsonEscape(_)
\* the body of a JSON string as json.dumps writes it
JsonEscape(s) ==
  IF s = <<>> THEN <<>>
  ELSE (CASE Head(s) = "\"" -> <<"\\", "\"">>
          [] Head(s) = "\\" -> <<"\\", "\\">>
          [] Head(s) = "\n" -> <<"\\", "n">>
          [] Head(s) = "\t" -> <<"\\", "t">>
          [] OTHER -> <<Head(s)>>) \o JsonEscape(Tail(s))

JsonStr(s) == <<"\"">> \o JsonEscape(s) \o <<"\"">>

JsonPart(p) ==
  IF p.tag = "str" THEN JsonStr(p.text)
  ELSE <<"{">> \o JsonStr(<<"t","y","p","e">>) \o <<":"," ">> \o JsonStr(p.type)
       \o (IF p.hasText
           THEN <<","," ">> \o JsonStr(<<"t","e","x","t">>) \o <<":"," ">>
                \o (IF p.text = PyNone THEN <<"n","u","l","l">> ELSE JsonStr(p.text))
           ELSE <<>>)
       \o <<"}">>

\* json.dumps(content) of a list content
JsonDumps(c) ==
  <<"[">> \o Join([i \in 1..Len(c.parts) |-> JsonPart(c.parts[i])], <<","," ">>) \o <<"]">>

(* ---------------------------------------------------------------------- *)
(* Content Normalizer, Token Estimator, Conversation Serializer            *)
(* ---------------------------------------------------------------------- *)
extract_text(content) ==
  IF content.tag = "list" /\ Len(content.parts) > 0
  THEN IF content.parts[1].tag = "dict"
       THEN (IF content.parts[1].hasText THEN content.parts[1].text ELSE <<>>)
       ELSE content.parts[1].text
  ELSE PyStr(content)

update_text(message, text) ==
  LET content == message.content IN
  IF content.tag = "list" /\ Len(content.parts) > 0 /\ content.parts[1].tag = "dict"
  THEN [message EXCEPT !.content.parts[1] =
          [tag |-> "dict", type |-> @.type, hasText |-> TRUE, text |-> text]]
  ELSE [message EXCEPT !.content = Text(text)]

\* the text one message contributes to build_text
FlatContent(content) ==
  IF content.tag = "list"
  THEN Join([i \in 1..Len(content.parts) |->
               IF content.parts[i].tag = "dict"
               THEN (IF content.parts[i].hasText THEN content.parts[i].text ELSE <<>>)
               ELSE content.parts[i].text], <<" ">>)
  ELSE PyStr(content)

\* ' '.join(parts) raises TypeError: a part of some message has a 'text' that is
\* not a str
build_text_raises(messages) ==
  \E i \in 1..Len(messages) :
    /\ messages[i].content.tag = "list"
    /\ \E j \in 1..Len(messages[i].content.parts) :
         LET p == messages[i].content.parts[j]
         IN  p.tag = "dict" /\ p.hasText /\ p.text = PyNone

RECURSIVE build_text(_)
build_text(messages) ==
  IF messages = <<>> THEN <<>>
  ELSE messages[1].role \o <<":"," ">> \o FlatContent(messages[1].content) \o <<"\n","\n">>
       \o build_text(Tail(messages))

\* len(str(content)) of one message, after json.dumps of a list
ContentLen(content) ==
  IF content.tag = "list" THEN Len(JsonDumps(content)) ELSE Len(PyStr(content))

RECURSIVE TotalLen(_)
TotalLen(messages) ==
  IF messages = <<>> THEN 0 ELSE ContentLen(messages[1].content) + TotalLen(Tail(messages))

\* the division taken message by message
estimate_tokens_each(messages) ==
  LET total[n \in 0..Len(messages)] ==
        IF n = 0 THEN 0 ELSE total[n - 1] + ContentLen(messages[n].content) \div 4
  IN  total[Len(messages)]

\* total // 4
estimate_tokens(messages) == TotalLen(messages) \div 4

(* ---------------------------------------------------------------------- *)
(* Inputs of the model                                                     *)
(* ---------------------------------------------------------------------- *)
User == <<"u","s","e","r">>
Assistant == <<"a","s","s","i","s","t","a","n","t">>
System == <<"s","y","s","t","e","m">>

TypeText == <<"t","e","x","t">>
TypeImage == <<"i","m","a","g","e">>

\* the history the host replays, one message after the other
PoolMsgs ==
  << Msg(User, Text(<<"h","i">>)),
     Msg(Assistant, Parts(<<TextPart(TypeText, <<"o","k">>), BarePart(TypeImage)>>)),
     Msg(User, Text(<<"w","h","y","?">>)) >>

PriorAt(i) == PoolMsgs[((i - 1) % Len(PoolMsgs)) + 1]

\* the messages before the last one: the first n messages of the history, for
\* no history, a history of one message and the longest history
Priors == {[i \in 1..n |-> PriorAt(i)] : n \in {0, 1, MaxPrior}}

\* the last message of an incoming conversation
LastMsgs ==
  { Msg(User, Text(<<"h","i">>)),
    Msg(User, Text(<<" ">> \o CompactCommand)),
    Msg(User, Parts(<<TextPart(TypeText, CompactCommand), BarePart(TypeImage)>>)),
    Msg(User, Parts(<<BarePart(TypeImage), TextPart(TypeText, CompactCommand)>>)),
    Msg(User, Parts(<<>>)),
    Msg(Assistant, Text(CompactCommand)) }

\* chat: a request with a 'messages' list, or without the key
Chat(ms) == [hasMessages |-> TRUE, messages |-> ms]
NoMessagesChat == [hasMessages |-> FALSE, messages |-> <<>>]

\* a history whose one message has a text part with 'text': None
NullTextHistory == <<Msg(Assistant, Parts(<<TextPart(TypeText, PyNone)>>))>>

Chats ==
  {NoMessagesChat, Chat(<<>>)}
    \cup {Chat(p \o <<l>>) : p \in Priors \cup {NullTextHistory}, l \in LastMsgs}

\* context: with a 'threadId', or without the key
Contexts == { [hasThreadId |-> FALSE, threadId |-> ""],
              [hasThreadId |-> TRUE, threadId |-> "t1"] }

ThreadIds == {DefaultThread, "t1"}

\* what ctx.chat_completion does: raise, or return a response
Response(k, c) == [kind |-> k, content |-> c]

Responses ==
  { Response("raise", <<>>),          \* the call raises
    Response("none", <<>>),           \* returns None
    Response("no_choices", <<>>),     \* no 'choices' key, or an empty list
    Response("bad_content", <<>>),    \* choices[0].message.content is missing or not a str
    Response("ok", <<>>),
    Response("ok", <<" ", "\n">>),
    Response("ok", <<" ", "A", "\n">>),
    Response("ok", <<"B", " ", "b">>) }

(* ---------------------------------------------------------------------- *)
(* State                                                                   *)
(* ---------------------------------------------------------------------- *)
VARIABLES
  compact_boundaries,   \* the dict thread_id -> boundary
  pending,              \* bag of the handle_compact frames suspended in the completion call
  out                   \* the turn that has just returned: what came in, what goes downstream

vars == <<compact_boundaries, pending, out>>

NotCalled == Response("not_called", <<>>)

NoTurn == [kind |-> "none", thread_id |-> "", incoming |-> NoMessagesChat,
           chat |-> NoMessagesChat, response |-> NotCalled, overwritten |-> <<>>]

\* a turn that returned: its path, thread, the chat as it came in, chat['messages']
\* as it is now, what the completion call did (NotCalled: there was no call), and
\* the boundaries the turn overwrote in the store (none, or one)
Returned(k, t, in, ms, r, o) ==
  [kind |-> k, thread_id |-> t, incoming |-> in,
   chat |-> [hasMessages |-> in.hasMessages, messages |-> ms], response |-> r,
   overwritten |-> o]

Init ==
  /\ compact_boundaries = <<>>
  /\ pending = EmptyBag
  /\ out = NoTurn

(* ---------------------------------------------------------------------- *)
(* Compaction Engine                                                       *)
(* ---------------------------------------------------------------------- *)
\* context.get('threadId', 'default')
thread_id_of(context) == IF context.hasThreadId THEN context.threadId ELSE DefaultThread

\* 'messages' not in chat or len(chat['messages']) == 0
no_messages(chat) == ~chat.hasMessages \/ Len(chat.messages) = 0

last_of(messages) == messages[Len(messages)]

\* the command looked for in the text of all the parts, not of the first
is_compact_command_any_part(message) ==
  LET text_content == FlatContent(message.content)
  IN  text_content # <<>> /\ startswith(strip(text_content), CompactCommand)

\* the test for the command left out: any text is taken for /compact
is_compact_command_any_text(message) ==
  LET text_content == extract_text(message.content)
  IN  text_content # <<>>

\* text_content and text_content.strip().startswith('/compact')
is_compact_command(message) ==
  LET text_content == extract_text(message.content)
  IN  text_content # <<>> /\ startswith(strip(text_content), CompactCommand)

\* chat['messages'][:]: the command message is not left out
messages_to_compact_all(messages) == messages

\* chat['messages'][:-1]
messages_to_compact(messages) == SubSeq(messages, 1, Len(messages) - 1)

system_msg(summary) == Msg(System, Text(SummaryPrefix \o summary))

\* the value generate_summary returns: a str, or None
NoSummary == [isNone |-> TRUE, text |-> <<>>]
SummaryOf(s) == [isNone |-> FALSE, text |-> s]

\* return summary: the text is not stripped
generate_summary_raw(response) ==
  IF response.kind = "ok" THEN SummaryOf(response.content) ELSE NoSummary

generate_summary(response) ==
  IF response.kind = "ok" THEN SummaryOf(strip(response.content)) ELSE NoSummary

\* summary is None: an empty str passes for a summary
falsy_only_none(summary) == summary.isNone

\* not summary
falsy(summary) == summary.isNone \/ summary.text = <<>>

\* update_text(last_message, ...) moved before the await
Frame_rewrite_first(thread_id, messages) ==
  [thread_id |-> thread_id,
   messages |-> [messages EXCEPT ![Len(messages)] = update_text(@, ContinueText)],
   pre_tokens |-> estimate_tokens(messages_to_compact(messages)),
   conversation_text |-> build_text(messages_to_compact(messages))]

\* the frame of handle_compact at its await
Frame(thread_id, messages) ==
  [thread_id |-> thread_id, messages |-> messages,
   pre_tokens |-> estimate_tokens(messages_to_compact(messages)),
   conversation_text |-> build_text(messages_to_compact(messages))]

\* 'messageCount': len(chat['messages']): the command message is counted too
store_boundary_count_all(boundaries, thread_id, summary, pre_tokens, to_compact) ==
  [t \in DOMAIN boundaries \cup {thread_id} |->
     IF t = thread_id
     THEN [summary |-> summary, preTokens |-> pre_tokens, messageCount |-> Len(to_compact) + 1]
     ELSE boundaries[t]]

\* compact_boundaries.setdefault(thread_id, {...}): a boundary already there stays
store_boundary_keep(boundaries, thread_id, summary, pre_tokens, to_compact) ==
  [t \in DOMAIN boundaries \cup {thread_id} |->
     IF t = thread_id /\ t \notin DOMAIN boundaries
     THEN [summary |-> summary, preTokens |-> pre_tokens, messageCount |-> Len(to_compact)]
     ELSE boundaries[t]]

\* compact_boundaries = {thread_id: {...}}: the dict is rebuilt with one entry
store_boundary_only(boundaries, thread_id, summary, pre_tokens, to_compact) ==
  [t \in {thread_id} |->
     [summary |-> summary, preTokens |-> pre_tokens, messageCount |-> Len(to_compact)]]

\* compact_boundaries[thread_id]['summary'] = summary when the thread has an
\* entry: the counts of the earlier turn stay
store_boundary_summary_only(boundaries, thread_id, summary, pre_tokens, to_compact) ==
  [t \in DOMAIN boundaries \cup {thread_id} |->
     IF t # thread_id THEN boundaries[t]
     ELSE IF t \in DOMAIN boundaries THEN [boundaries[t] EXCEPT !.summary = summary]
     ELSE [summary |-> summary, preTokens |-> pre_tokens, messageCount |-> Len(to_compact)]]

\* compact_boundaries[thread_id] = {...}
store_boundary(boundaries, thread_id, summary, pre_tokens, to_compact) ==
  [t \in DOMAIN boundaries \cup {thread_id} |->
     IF t = thread_id
     THEN [summary |-> summary, preTokens |-> pre_tokens, messageCount |-> Len(to_compact)]
     ELSE boundaries[t]]

\* what the assignment compact_boundaries[thread_id] = {...} overwrites
overwritten(boundaries, thread_id) ==
  IF thread_id \in DOMAIN boundaries THEN <<boundaries[thread_id]>> ELSE <<>>

\* chat['messages'] after a successful summarization
compacted_messages(messages, summary) ==
  <<system_msg(summary), update_text(last_of(messages), ContinueText)>>

\* chat['messages'] = [last_message] on failure
failed_messages_single(messages) ==
  <<update_text(last_of(messages), FailedText)>>

\* chat['messages'] after a failed summarization
failed_messages(messages) ==
  [messages EXCEPT ![Len(messages)] = update_text(@, FailedText)]

\* chat['messages'] after /compact with nothing before it
no_history_messages(messages) ==
  [messages EXCEPT ![Len(messages)] = update_text(@, NoHistoryText)]

\* [system_msg] + chat['messages']: nothing is dropped
apply_compaction_keep_all(boundaries, messages, thread_id) ==
  <<system_msg(boundaries[thread_id].summary)>> \o messages

\* recent = chat['messages'][-2:]
apply_compaction_keep_two(boundaries, messages, thread_id) ==
  <<system_msg(boundaries[thread_id].summary)>>
    \o SubSeq(messages, IF Len(messages) > 2 THEN Len(messages) - 1 ELSE 1, Len(messages))

\* the last message gets the continuation prompt, as after a fresh compaction
apply_compaction_rewrite(boundaries, messages, thread_id) ==
  <<system_msg(boundaries[thread_id].summary),
    update_text(last_of(messages), ContinueText)>>

\* chat['messages'] after apply_compaction
apply_compaction(boundaries, messages, thread_id) ==
  <<system_msg(boundaries[thread_id].summary)>>
    \o SubSeq(messages, Len(messages), Len(messages))

(* ---------------------------------------------------------------------- *)
(* Turns                                                                   *)
(* ---------------------------------------------------------------------- *)
\* the test for an empty list left out: a thread with a boundary gets its summary
PassNoMessages_inject(context, chat) ==
  /\ out = NoTurn
  /\ no_messages(chat)
  /\ out' = Returned("no_messages", thread_id_of(context), chat,
                     IF thread_id_of(context) \in DOMAIN compact_boundaries
                     THEN <<system_msg(compact_boundaries[thread_id_of(context)].summary)>>
                     ELSE chat.messages, NotCalled, <<>>)
  /\ UNCHANGED <<compact_boundaries, pending>>

\* no 'messages' key or an empty list: return
PassNoMessages(context, chat) ==
  /\ out = NoTurn
  /\ no_messages(chat)
  /\ out' = Returned("no_messages", thread_id_of(context), chat, chat.messages, NotCalled, <<>>)
  /\ UNCHANGED <<compact_boundaries, pending>>

\* the last message is not a user message: return
PassNotUser(context, chat) ==
  /\ out = NoTurn
  /\ ~no_messages(chat)
  /\ last_of(chat.messages).role # User
  /\ out' = Returned("not_user", thread_id_of(context), chat, chat.messages, NotCalled, <<>>)
  /\ UNCHANGED <<compact_boundaries, pending>>

\* /compact with nothing before it
CompactNoHistory(context, chat) ==
  /\ out = NoTurn
  /\ ~no_messages(chat)
  /\ last_of(chat.messages).role = User
  /\ is_compact_command(last_of(chat.messages))
  /\ Len(messages_to_compact(chat.messages)) = 0
  /\ out' = Returned("no_history", thread_id_of(context), chat,
                     no_history_messages(chat.messages), NotCalled, <<>>)
  /\ UNCHANGED <<compact_boundaries, pending>>

\* /compact with a history: handle_compact up to the await of the completion call
CompactBegin(context, chat) ==
  /\ out = NoTurn
  /\ ~no_messages(chat)
  /\ last_of(chat.messages).role = User
  /\ is_compact_command(last_of(chat.messages))
  /\ Len(messages_to_compact(chat.messages)) # 0
  /\ ~build_text_raises(messages_to_compact(chat.messages))
  /\ BagCardinality(pending) < MaxInFlight
  /\ pending' = pending (+) SetToBag({Frame(thread_id_of(context), chat.messages)})
  /\ UNCHANGED <<compact_boundaries, out>>

\* /compact with a history that build_text cannot join: the TypeError leaves
\* handle_compact and the filter, before any call and any mutation
CompactRaise(context, chat) ==
  /\ out = NoTurn
  /\ ~no_messages(chat)
  /\ last_of(chat.messages).role = User
  /\ is_compact_command(last_of(chat.messages))
  /\ Len(messages_to_compact(chat.messages)) # 0
  /\ build_text_raises(messages_to_compact(chat.messages))
  /\ out' = Returned("raised", thread_id_of(context), chat, chat.messages, NotCalled, <<>>)
  /\ UNCHANGED <<compact_boundaries, pending>>

\* compact_boundaries.pop(thread_id, None) on failure
CompactFail_forget(frame, response) ==
  /\ out = NoTurn
  /\ BagIn(frame, pending)
  /\ falsy(generate_summary(response))
  /\ pending' = pending (-) SetToBag({frame})
  /\ out' = Returned("failed", frame.thread_id, Chat(frame.messages),
                     failed_messages(frame.messages), response, <<>>)
  /\ compact_boundaries' =
       [t \in DOMAIN compact_boundaries \ {frame.thread_id} |-> compact_boundaries[t]]

\* the completion call of a suspended turn ends and gives no summary
CompactFail(frame, response) ==
  /\ out = NoTurn
  /\ BagIn(frame, pending)
  /\ falsy(generate_summary(response))
  /\ pending' = pending (-) SetToBag({frame})
  /\ out' = Returned("failed", frame.thread_id, Chat(frame.messages),
                     failed_messages(frame.messages), response, <<>>)
  /\ UNCHANGED compact_boundaries

\* the completion call of a suspended turn ends and gives a summary
CompactSucceed(frame, response) ==
  LET summary == generate_summary(response) IN
  /\ out = NoTurn
  /\ BagIn(frame, pending)
  /\ ~falsy(summary)
  /\ pending' = pending (-) SetToBag({frame})
  /\ compact_boundaries' =
       store_boundary(compact_boundaries, frame.thread_id, summary.text,
                      frame.pre_tokens, messages_to_compact(frame.messages))
  /\ out' = Returned("compacted", frame.thread_id, Chat(frame.messages),
                     compacted_messages(frame.messages, summary.text), response,
                     overwritten(compact_boundaries, frame.thread_id))

\* a user message that is not /compact, on a thread with a boundary
Reapply(context, chat) ==
  /\ out = NoTurn
  /\ ~no_messages(chat)
  /\ last_of(chat.messages).role = User
  /\ ~is_compact_command(last_of(chat.messages))
  /\ thread_id_of(context) \in DOMAIN compact_boundaries
  /\ out' = Returned("reapplied", thread_id_of(context), chat,
                     apply_compaction(compact_boundaries, chat.messages,
                                      thread_id_of(context)), NotCalled, <<>>)
  /\ UNCHANGED <<compact_boundaries, pending>>

\* a user message that is not /compact, on a thread without a boundary
PassIdle(context, chat) ==
  /\ out = NoTurn
  /\ ~no_messages(chat)
  /\ last_of(chat.messages).role = User
  /\ ~is_compact_command(last_of(chat.messages))
  /\ thread_id_of(context) \notin DOMAIN compact_boundaries
  /\ out' = Returned("idle", thread_id_of(context), chat, chat.messages, NotCalled, <<>>)
  /\ UNCHANGED <<compact_boundaries, pending>>

\* the filter has returned: the host goes on with the conversation, and the
\* event loop is free for the next step of any turn
HandDownstream ==
  /\ out # NoTurn
  /\ out' = NoTurn
  /\ UNCHANGED <<compact_boundaries, pending>>

Next ==
  \/ \E context \in Contexts, chat \in Chats : PassNoMessages(context, chat)
  \/ \E context \in Contexts, chat \in Chats : PassNotUser(context, chat)
  \/ \E context \in Contexts, chat \in Chats : CompactNoHistory(context, chat)
  \/ \E context \in Contexts, chat \in Chats : CompactBegin(context, chat)
  \/ \E context \in Contexts, chat \in Chats : CompactRaise(context, chat)
  \/ \E frame \in BagToSet(pending), response \in Responses : CompactFail(frame, response)
  \/ \E frame \in BagToSet(pending), response \in Responses : CompactSucceed(frame, response)
  \/ \E context \in Contexts, chat \in Chats : Reapply(context, chat)
  \/ \E context \in Contexts, chat \in Chats : PassIdle(context, chat)
  \/ HandDownstream

Spec == Init /\ [][Next]_vars

(* ---------------------------------------------------------------------- *)
(* Vocabulary of the properties                                            *)
(* ---------------------------------------------------------------------- *)
\* a step in which a turn returns to the host
TurnReturns == out = NoTurn /\ out' # NoTurn

\* a step in which a turn suspends in the completion call
TurnSuspends == out' = out /\ pending' # pending

\* the text of a message, as extractText reads it
TextOf(message) == extract_text(message.content)

\* the trimmed text of the message begins with /compact
StartsWithCompact(message) ==
  LET t == TextOf(message)
  IN  \E k \in 0..Len(t) :
        /\ \A i \in 1..k : IsSpace(t[i])
        /\ Len(t) >= k + Len(CompactCommand)
        /\ \A i \in 1..Len(CompactCommand) : t[k + i] = CompactCommand[i]

\* s is raw without its leading and trailing whitespace, and is not empty
TrimmedOf(s, raw) ==
  /\ s # <<>>
  /\ ~IsSpace(s[1]) /\ ~IsSpace(s[Len(s)])
  /\ \E k \in 0..Len(raw) :
       /\ k + Len(s) <= Len(raw)
       /\ \A i \in 1..Len(s) : raw[k + i] = s[i]
       /\ \A i \in 1..Len(raw) : (i <= k \/ i > k + Len(s)) => IsSpace(raw[i])

\* the completion call gave nothing to store
FailingResponse(r) ==
  \/ r.kind \in {"raise", "none", "no_choices", "bad_content"}
  \/ r.kind = "ok" /\ \A i \in 1..Len(r.content) : IsSpace(r.content[i])

\* the completion call gave a text with something in it
SummaryResponse(r) ==
  r.kind = "ok" /\ \E i \in 1..Len(r.content) : ~IsSpace(r.content[i])

\* the system message that carries a summary
Framed(summary) ==
  [role |-> System, content |-> Text(SummaryPrefix \o summary)]

\* b is message a, but for its text
SameButText(a, b) ==
  /\ b.role = a.role
  /\ (a.content.tag = "list" /\ Len(a.content.parts) > 0 /\ a.content.parts[1].tag = "dict")
       => /\ b.content.tag = "list"
          /\ Len(b.content.parts) = Len(a.content.parts)
          /\ b.content.parts[1].type = a.content.parts[1].type
          /\ \A i \in 2..Len(a.content.parts) : b.content.parts[i] = a.content.parts[i]

\* the turn is a /compact command with at least one message before it
CommandWithHistory(o) ==
  /\ o.incoming.hasMessages
  /\ Len(o.incoming.messages) >= 2
  /\ last_of(o.incoming.messages).role = User
  /\ StartsWithCompact(last_of(o.incoming.messages))

\* the turn is a user message that is not a /compact command
PlainUserTurn(o) ==
  /\ o.incoming.hasMessages
  /\ Len(o.incoming.messages) >= 1
  /\ last_of(o.incoming.messages).role = User
  /\ ~StartsWithCompact(last_of(o.incoming.messages))

\* b is the boundary a successful turn o has to store
BoundaryOfTurn(b, o) ==
  /\ TrimmedOf(b.summary, o.response.content)
  /\ b.preTokens =
       estimate_tokens(SubSeq(o.incoming.messages, 1, Len(o.incoming.messages) - 1))
  /\ b.messageCount = Len(o.incoming.messages) - 1

\* the entry of thread t in a store: no entry, or one boundary
Entry(boundaries, t) == IF t \in DOMAIN boundaries THEN <<boundaries[t]>> ELSE <<>>

\* a store with the entry of thread t and no other
Own(boundaries, t) == [u \in DOMAIN boundaries \cap {t} |-> boundaries[u]]

(* ---------------------------------------------------------------------- *)
(* Properties                                                              *)
(* ---------------------------------------------------------------------- *)

\* C1: after a turn that compacts (a successful fresh compaction or a
\* reapplication) the conversation handed downstream has exactly two messages:
\* the system message carrying the summary stored for the thread, then the last
\* message of the incoming conversation, which is a user message (with its text
\* rewritten after a fresh compaction, untouched after a reapplication).
C1_TwoMessagesAfterCompaction ==
  out.kind \in {"compacted", "reapplied"} =>
    LET ms == out.chat.messages
        last == last_of(out.incoming.messages)
    IN  /\ Len(ms) = 2
        /\ out.thread_id \in DOMAIN compact_boundaries
        /\ ms[1] = Framed(compact_boundaries[out.thread_id].summary)
        /\ ms[2].role = User
        /\ SameButText(last, ms[2])
        /\ out.kind = "reapplied" => ms[2] = last

C1_Witness ==
  /\ out.kind \in {"compacted", "reapplied"}
  /\ Len(out.incoming.messages) = 3
  /\ last_of(out.incoming.messages).content.tag = "list"

\* C2: when a /compact turn with at least one earlier message gets a summary
\* that is not empty once trimmed, the store entry of the thread is {the trimmed
\* summary, the estimate of all incoming messages but the last, the number of
\* incoming messages minus one}, whether or not the thread had a boundary, and
\* the text of the last message is the continuation prompt.
C2_BoundaryStored ==
  (out # NoTurn /\ CommandWithHistory(out) /\ SummaryResponse(out.response)) =>
    /\ out.thread_id \in DOMAIN compact_boundaries
    /\ BoundaryOfTurn(compact_boundaries[out.thread_id], out)
    /\ TextOf(last_of(out.chat.messages)) = ContinueText

C2_Witness ==
  /\ out.kind = "compacted"
  /\ out.overwritten # <<>>
  /\ compact_boundaries[out.thread_id].summary # out.response.content
  /\ compact_boundaries[out.thread_id].messageCount = 2
  /\ compact_boundaries[out.thread_id].preTokens > 0

\* C3: a /compact turn whose summarization fails (the call raises, gives no
\* response or no choices, or gives an empty or whitespace-only text) writes
\* nothing to the store, neither when it suspends in the call nor when it
\* returns: every thread keeps the boundary it had, or stays without one.
C3_FailureLeavesStore ==
  [][ /\ (TurnReturns /\ FailingResponse(out'.response))
           => compact_boundaries' = compact_boundaries
      /\ TurnSuspends => compact_boundaries' = compact_boundaries ]_vars

C3_Witness ==
  /\ out.kind = "failed"
  /\ out.response = Response("ok", <<" ", "\n">>)
  /\ out.thread_id \in DOMAIN compact_boundaries

\* C4 as claimed: after a failed summarization the conversation handed
\* downstream is a single message whose text is "Failed to generate summary.".
C4_SingleFailureMessage ==
  (out # NoTurn /\ CommandWithHistory(out) /\ FailingResponse(out.response)) =>
    /\ Len(out.chat.messages) = 1
    /\ TextOf(out.chat.messages[1]) = FailedText

\* C4 amended: after a failed summarization the conversation handed downstream
\* has as many messages as came in, the messages before the last are unchanged,
\* and the last message is the incoming last message with its text replaced by
\* "Failed to generate summary.".
C4_FailureKeepsHistory ==
  (out # NoTurn /\ CommandWithHistory(out) /\ FailingResponse(out.response)) =>
    LET ms == out.chat.messages
        in == out.incoming.messages
    IN  /\ Len(ms) = Len(in)
        /\ \A i \in 1..(Len(in) - 1) : ms[i] = in[i]
        /\ TextOf(last_of(ms)) = FailedText
        /\ SameButText(last_of(in), last_of(ms))

C4_Witness ==
  /\ out.kind = "failed"
  /\ Len(out.incoming.messages) = 3
  /\ Len(out.chat.messages) = 3

\* C5: a successful /compact on a thread that holds a boundary b1 leaves the
\* thread with the boundary b2 of that turn in all three fields; the boundary of
\* a thread changes in no other step; and a reapplication builds its system
\* message from the summary the store holds for the thread at that time, which
\* is therefore that of the last successful /compact.
C5_LatestBoundaryWins ==
  [][ /\ \A t \in ThreadIds :
           (t \in DOMAIN compact_boundaries /\ Entry(compact_boundaries', t) # Entry(compact_boundaries, t))
             => /\ TurnReturns /\ out'.kind = "compacted" /\ out'.thread_id = t
                /\ out'.overwritten = Entry(compact_boundaries, t)
      /\ (TurnReturns /\ out'.kind = "compacted")
           => /\ out'.thread_id \in DOMAIN compact_boundaries'
              /\ BoundaryOfTurn(compact_boundaries'[out'.thread_id], out')
      /\ (TurnReturns /\ out'.kind = "reapplied")
           => /\ out'.thread_id \in DOMAIN compact_boundaries
              /\ out'.chat.messages[1] = Framed(compact_boundaries[out'.thread_id].summary) ]_vars

C5_Witness ==
  /\ out.kind = "compacted"
  /\ out.overwritten # <<>>
  /\ out.overwritten[1].summary # compact_boundaries[out.thread_id].summary
  /\ out.overwritten[1].preTokens # compact_boundaries[out.thread_id].preTokens
  /\ out.overwritten[1].messageCount # compact_boundaries[out.thread_id].messageCount

\* C6: a turn on a thread that has a boundary, whose last message is a user
\* message that is not a /compact command, returns [the system message with the
\* stored summary, the incoming last message as it came], leaves the store as
\* it was, and makes no completion call.
C6_Reapplication ==
  [][ (TurnReturns /\ PlainUserTurn(out') /\ out'.thread_id \in DOMAIN compact_boundaries)
        => /\ out'.chat.messages =
                <<Framed(compact_boundaries[out'.thread_id].summary),
                  last_of(out'.incoming.messages)>>
           /\ compact_boundaries' = compact_boundaries
           /\ pending' = pending
           /\ out'.response = NotCalled ]_vars

C6_Witness ==
  /\ out.kind = "reapplied"
  /\ PlainUserTurn(out)
  /\ last_of(out.incoming.messages).content.tag = "list"
  /\ Len(last_of(out.incoming.messages).content.parts) = 2
  /\ BagCardinality(pending) > 0

\* C7: a /compact turn whose conversation is the command message alone returns
\* that one message with its text set to "No conversation history to
\* compact.", leaves the store as it was, and makes no completion call, whether
\* or not the thread has a boundary.
C7_NoHistory ==
  [][ (/\ TurnReturns
       /\ out'.incoming.hasMessages
       /\ Len(out'.incoming.messages) = 1
       /\ out'.incoming.messages[1].role = User
       /\ StartsWithCompact(out'.incoming.messages[1]))
        => /\ Len(out'.chat.messages) = 1
           /\ TextOf(out'.chat.messages[1]) = NoHistoryText
           /\ SameButText(out'.incoming.messages[1], out'.chat.messages[1])
           /\ compact_boundaries' = compact_boundaries
           /\ pending' = pending
           /\ out'.response = NotCalled ]_vars

C7_Witness ==
  /\ out.kind = "no_history"
  /\ out.thread_id \in DOMAIN compact_boundaries
  /\ Len(out.chat.messages) = 1
  /\ TextOf(out.chat.messages[1]) = NoHistoryText

\* C8: a turn whose last message is not a user message (whatever the thread
\* holds), or whose last message is a user message that is not a /compact
\* command on a thread without a boundary, returns the conversation as it came,
\* leaves the store as it was, and makes no completion call.
C8_PassThrough ==
  [][ (/\ TurnReturns
       /\ out'.incoming.hasMessages
       /\ Len(out'.incoming.messages) >= 1
       /\ \/ last_of(out'.incoming.messages).role # User
          \/ /\ PlainUserTurn(out')
             /\ out'.thread_id \notin DOMAIN compact_boundaries)
        => /\ out'.chat = out'.incoming
           /\ compact_boundaries' = compact_boundaries
           /\ pending' = pending
           /\ out'.response = NotCalled ]_vars

C8_Witness ==
  /\ out.kind = "not_user"
  /\ out.thread_id \in DOMAIN compact_boundaries
  /\ StartsWithCompact(last_of(out.incoming.messages))
  /\ out.chat = out.incoming

\* C9: reapplication is idempotent: applied to the two-message conversation a
\* compaction (fresh or reapplied) has just produced, with the same boundary,
\* it gives that same conversation again.
C9_ReapplicationIdempotent ==
  (out.kind \in {"compacted", "reapplied"} /\ out.thread_id \in DOMAIN compact_boundaries) =>
    LET once == apply_compaction(compact_boundaries, out.chat.messages, out.thread_id)
        twice == apply_compaction(compact_boundaries, once, out.thread_id)
    IN  /\ once = out.chat.messages
        /\ twice = once

C9_Witness ==
  /\ out.kind = "reapplied"
  /\ Len(out.incoming.messages) >= 2
  /\ Len(out.chat.messages) = 2
  /\ out.chat.messages[1].role = System

\* C10: turns on different threads do not interfere: a step changes the store
\* entry of a thread (creates, changes or removes it) only when a turn on that
\* very thread returns, also while turns on other threads are suspended in the
\* completion call; and the conversation a reapplication returns is the one it
\* returns when the store holds no other thread's boundary.
C10_ThreadsIndependent ==
  [][ /\ \A b \in ThreadIds :
           Entry(compact_boundaries', b) # Entry(compact_boundaries, b)
             => TurnReturns /\ out'.thread_id = b
      /\ (TurnReturns /\ out'.kind = "reapplied")
           => out'.chat.messages =
                apply_compaction(Own(compact_boundaries, out'.thread_id),
                                 out'.incoming.messages, out'.thread_id)
      /\ (TurnReturns /\ out'.kind = "idle")
           => out'.thread_id \notin DOMAIN compact_boundaries ]_vars

C10_Witness ==
  /\ out.kind = "compacted"
  /\ \E f \in BagToSet(pending) : f.thread_id # out.thread_id
  /\ \E b \in DOMAIN compact_boundaries :
       /\ b # out.thread_id
       /\ compact_boundaries[b].summary # compact_boundaries[out.thread_id].summary

\* C11 as claimed: no turn ends in a raised error, whatever the contents of
\* the messages and whatever the completion call does: every turn that comes
\* back has returned normally, on one of the defined paths.
C11_NoTurnRaises ==
  out # NoTurn =>
    out.kind \in {"no_messages", "not_user", "no_history", "failed", "compacted",
                  "reapplied", "idle"}

\* a frame that a step puts into the bag of suspended turns
NewFrame(f) == CopiesIn(f, pending') > CopiesIn(f, pending)

\* C12: a thread that has a boundary has one after every step, whatever turn
\* the step belongs to, so a thread with a boundary never goes back to having
\* none; and the store is a mapping that gives a thread at most one boundary.
C12_BoundaryNeverRemoved ==
  [][ /\ DOMAIN compact_boundaries \subseteq DOMAIN compact_boundaries'
      /\ DOMAIN compact_boundaries' \subseteq ThreadIds
      /\ \A t \in DOMAIN compact_boundaries' :
           DOMAIN compact_boundaries'[t] = {"summary", "preTokens", "messageCount"} ]_vars

C12_Witness ==
  /\ out.kind = "failed"
  /\ DOMAIN compact_boundaries = ThreadIds
  /\ BagCardinality(pending) = 1

\* C13: a fresh compaction changes nothing before the result of the completion
\* call is known: the step that suspends in the call writes no boundary, the
\* turn waits with the conversation exactly as it came in, and it is that
\* conversation the turn rewrites when the call has ended.
C13_NoMutationBeforeResult ==
  [][ /\ TurnSuspends => compact_boundaries' = compact_boundaries
      /\ \A f \in BagToSet(pending') :
           NewFrame(f) => TurnSuspends /\ Chat(f.messages) \in Chats
      /\ (TurnReturns /\ out'.response # NotCalled) => out'.incoming \in Chats ]_vars

C13_Witness ==
  /\ out = NoTurn
  /\ \E f \in BagToSet(pending) :
       /\ f.thread_id \in DOMAIN compact_boundaries
       /\ Len(f.messages) = 3
       /\ last_of(f.messages).content.tag = "list"

\* C14: every summary in the store is not empty and has no whitespace at its
\* start or its end; a turn whose completion call gave an empty or a
\* whitespace-only text stores nothing as a compaction.
C14_StoredSummaryTrimmed ==
  /\ \A t \in DOMAIN compact_boundaries :
       LET s == compact_boundaries[t].summary
       IN  s # <<>> /\ ~IsSpace(s[1]) /\ ~IsSpace(s[Len(s)])
  /\ (out # NoTurn /\ FailingResponse(out.response)) => out.kind # "compacted"

C14_Witness ==
  /\ out.kind = "compacted"
  /\ IsSpace(out.response.content[1])
  /\ Cardinality(DOMAIN compact_boundaries) = 2

\* C15: a step starts at most one completion call, and only for a /compact
\* command with at least one message before it; a turn that returns after its
\* call (failed or not) leaves no call of its own behind, and a turn that is not
\* such a command starts none.
C15_AtMostOneCall ==
  [][ /\ BagCardinality(pending') <= BagCardinality(pending) + 1
      /\ \A f \in BagToSet(pending') :
           NewFrame(f) =>
             /\ out' = out
             /\ Len(f.messages) >= 2
             /\ last_of(f.messages).role = User
             /\ StartsWithCompact(last_of(f.messages))
      /\ TurnReturns =>
           IF out'.response = NotCalled
           THEN pending' = pending
           ELSE /\ CommandWithHistory(out')
                /\ BagCardinality(pending') = BagCardinality(pending) - 1
                /\ \A f \in BagToSet(pending') : ~NewFrame(f) ]_vars

C15_Witness ==
  /\ out.kind = "failed"
  /\ out.response = Response("raise", <<>>)
  /\ pending = EmptyBag

(* ---------------------------------------------------------------------- *)
(* The helper functions on their own: extract_text, update_text,           *)
(* estimate_tokens applied to drawn arguments.  The call and its result    *)
(* are observed in out; the store and the suspended turns play no part.    *)
(* ---------------------------------------------------------------------- *)
\* content values handed to extract_text and update_text
FnContents ==
  { Text(<<>>), Text(<<"h","i">>), Text(<<" ","/","c","o","m","p","a","c","t">>),
    Parts(<<>>),
    Parts(<<TextPart(TypeText, <<"o","k">>)>>),
    Parts(<<TextPart(TypeText, <<"o","k">>), BarePart(TypeImage)>>),
    Parts(<<BarePart(TypeImage), TextPart(TypeText, <<"o","k">>)>>),
    Parts(<<StrPart(<<"r","a","w">>), TextPart(TypeText, <<"o","k">>)>>),
    Parts(<<TextPart(TypeText, PyNone)>>),
    NoneContent, AbsentContent }

\* the texts update_text is called with
FnTexts == {NoHistoryText, FailedText}

\* messages of the sequences handed to estimate_tokens
FnPool ==
  { Msg(User, Text(<<"a","b","c">>)), Msg(User, Text(<<"a","b","c","d","e">>)),
    Msg(Assistant, Parts(<<TextPart(TypeText, <<"o","k">>)>>)),
    Msg(User, AbsentContent), Msg(Assistant, NoneContent) }

FnSeqs == UNION {[1..n -> FnPool] : n \in 0..MaxPrior}

\* a call of a helper: its arguments and what it gave
FnCall(fn, message, new_text, messages, text, updated, tokens) ==
  [fn |-> fn, message |-> message, new_text |-> new_text, messages |-> messages,
   text |-> text, updated |-> updated, tokens |-> tokens]

InitFn ==
  /\ compact_boundaries = <<>>
  /\ pending = EmptyBag
  /\ out \in {FnCall("input", Msg(User, c), t, ms, <<>>, Msg(User, c), 0) :
                c \in FnContents, t \in FnTexts, ms \in FnSeqs}

\* extract_text(message.get('content', ''))
ExtractText ==
  /\ out.fn = "input"
  /\ out' = [out EXCEPT !.fn = "extract_text", !.text = extract_text(out.message.content)]
  /\ UNCHANGED <<compact_boundaries, pending>>

\* update_text(message, text)
UpdateText ==
  /\ out.fn = "input"
  /\ out' = [out EXCEPT !.fn = "update_text",
                        !.updated = update_text(out.message, out.new_text)]
  /\ UNCHANGED <<compact_boundaries, pending>>

\* estimate_tokens(messages)
EstimateTokens ==
  /\ out.fn = "input"
  /\ out' = [out EXCEPT !.fn = "estimate_tokens", !.tokens = estimate_tokens(out.messages)]
  /\ UNCHANGED <<compact_boundaries, pending>>

\* estimate_tokens(messages + [m]): the loop runs over one more message
AppendMessage(m) ==
  /\ out.fn = "estimate_tokens"
  /\ Len(out.messages) <= MaxPrior
  /\ out' = [out EXCEPT !.messages = Append(out.messages, m),
                        !.tokens = estimate_tokens(Append(out.messages, m))]
  /\ UNCHANGED <<compact_boundaries, pending>>

NextFn ==
  \/ ExtractText
  \/ UpdateText
  \/ EstimateTokens
  \/ \E m \in FnPool : AppendMessage(m)

SpecFn == InitFn /\ [][NextFn]_vars

\* the string form of a part
StringForm(part) == IF part.tag = "str" THEN part.text ELSE ReprPart(part)

\* C16 as claimed: what extract_text gives is a string in every case; for a
\* non-empty list it is the text field of the first part when the part has one
\* and the string form of the first part otherwise, for an empty list the empty
\* text, for a text the text itself, for any other value its string form.
C16_ExtractTextContract ==
  out.fn = "extract_text" =>
    LET content == out.message.content IN
    /\ out.text # PyNone
    /\ CASE content.tag = "list" /\ Len(content.parts) > 0 ->
              out.text = IF content.parts[1].hasText THEN content.parts[1].text
                         ELSE StringForm(content.parts[1])
         [] content.tag = "list" /\ Len(content.parts) = 0 -> out.text = <<>>
         [] content.tag = "text" -> out.text = content.text
         [] OTHER -> out.text = PyStr(content)

RECURSIVE SumOfLengths(_, _)
\* the lengths of the serialized contents of the first n messages, added up
SumOfLengths(messages, n) ==
  IF n = 0 THEN 0
  ELSE SumOfLengths(messages, n - 1)
       + ( LET c == messages[n].content
           IN  CASE c.tag = "text" -> Len(c.text)
                 [] c.tag = "absent" -> 0
                 [] c.tag = "none" -> 4
                 [] c.tag = "list" -> Len(JsonDumps(c)) )

\* C18: the estimate is the sum of the lengths of the serialized contents,
\* divided by 4 and truncated (4 * estimate <= sum < 4 * estimate + 4, over the
\* sum and not message by message); it is never negative, and the estimate of
\* a sequence with one more message at its end is never lower.
C18_EstimateIsTruncatedQuarter ==
  [][ out'.fn = "estimate_tokens" =>
        LET total == SumOfLengths(out'.messages, Len(out'.messages)) IN
        /\ out'.tokens >= 0
        /\ 4 * out'.tokens <= total
        /\ total < 4 * out'.tokens + 4
        /\ (out.fn = "estimate_tokens" /\ SubSeq(out'.messages, 1, Len(out.messages)) = out.messages)
             => out'.tokens >= out.tokens ]_vars

C18_Witness ==
  /\ out.fn = "estimate_tokens"
  /\ Len(out.messages) = 2
  /\ out.tokens = 2
  /\ out.messages[1].content = Text(<<"a","b","c">>)
  /\ out.messages[2].content = Text(<<"a","b","c","d","e">>)

\* C19: when /compact turns on one thread overlap, each turn that returns
\* after its call either stores a boundary whose three fields are all its own
\* (so the store holds the whole boundary of the successful turn that returned
\* last) or, when its summarization failed, leaves the entry of the thread as
\* the other turn wrote it.
C19_OverlapWholeBoundary ==
  [][ (TurnReturns /\ out'.response # NotCalled) =>
        IF SummaryResponse(out'.response)
        THEN /\ out'.kind = "compacted"
             /\ out'.thread_id \in DOMAIN compact_boundaries'
             /\ BoundaryOfTurn(compact_boundaries'[out'.thread_id], out')
        ELSE /\ out'.kind = "failed"
             /\ Entry(compact_boundaries', out'.thread_id)
                  = Entry(compact_boundaries, out'.thread_id) ]_vars

C19_Witness ==
  /\ out.kind = "compacted"
  /\ out.overwritten # <<>>
  /\ out.overwritten[1].messageCount # compact_boundaries[out.thread_id].messageCount
  /\ \E g \in BagToSet(pending) :
       /\ g.thread_id = out.thread_id
       /\ g.messages # out.incoming.messages

\* C20: a turn whose request has no message list, or an empty one, returns the
\* request as it came (no summary message is added, boundary or not), leaves
\* the store as it was, and makes no completion call.
C20_NoMessagesNoOp ==
  [][ (TurnReturns /\ (~out'.incoming.hasMessages \/ Len(out'.incoming.messages) = 0))
        => /\ out'.chat = out'.incoming
           /\ compact_boundaries' = compact_boundaries
           /\ pending' = pending
           /\ out'.response = NotCalled ]_vars

C20_Witness ==
  /\ out.kind = "no_messages"
  /\ out.thread_id \in DOMAIN compact_boundaries
  /\ out.incoming = Chat(<<>>)
  /\ out.chat = out.incoming

====
